---- MODULE Spec2Model ----
(***************************************************************************)
(* Conversation-dispatch subsystem of the Slack <-> Potpie bridge.         *)
(*                                                                         *)
(*   src/src/store.py           credential store and thread-conversation   *)
(*                              mapping store (file and SQL backends)      *)
(*   src/src/potpie_service.py  remote session gateway                     *)
(*   src/src/app.py             event handlers and the dispatch tasks      *)
(*                                                                         *)
(* The specifications share the variables:                                 *)
(*   SpecStore     completed, non-overlapping store calls on either backend*)
(*   SpecConc      coroutines interleaving on one file-backed store        *)
(*   SpecHandlers  the handlers, each invocation recorded in h             *)
(*   Spec          the handlers and the detached dispatch tasks they start *)
(*   SpecSubmit    start-conversation submissions interleaving on one      *)
(*                 file-backed mapping store                               *)
(*   SpecOutage    the handlers when a read of a store raises              *)
(*   SpecGateway   the gateway operations as functions of the HTTP exchange*)
(*   SpecLock      SpecConc with every call for one tenant                 *)
(*   SpecTwins     two dispatch tasks started with the same arguments      *)
(*   SpecInFlight  follow-up mentions while the stores are written again   *)
(*   SpecWrites    the handlers that write a store, when the write raises  *)
(***************************************************************************)
EXTENDS Integers, Sequences, FiniteSets, TLC

VARIABLES
    backend,     \* "file" | "sql": the store implementation chosen in main.py
    authFile,    \* data/auth_tokens.json
    mapFile,     \* data/conversation_mappings.json
    authTable,   \* rows of slack_auth_tokens
    mapTable,    \* rows of slack_conversation_mappings
    lastTok,     \* history: tenant -> value of the most recent completed set_token
    lastMap,     \* history: anchor -> value of the most recent completed set_mapping
    lastCall,    \* history: the most recent completed store call and what it replaced
    gw,          \* history: the most recent gateway call, its HTTP exchange and result
    callers,     \* SpecConc, SpecSubmit: coroutines inside calls of a file store
    lockHolder,  \* SpecConc, SpecSubmit: coroutine holding the store's lock, or Unlocked
    waiters,     \* SpecConc, SpecSubmit: FIFO of coroutines waiting for the lock
    tasks,       \* Spec: the dispatch tasks created by asyncio.create_task
    nextTs,      \* Spec: index of the id the next message of the channel gets
    h,           \* history: what the most recent handler invocation did
    observing    \* whether h is kept (SpecHandlers) or left blank (Spec)

storeVars == <<backend, authFile, mapFile, authTable, mapTable>>
histVars == <<lastTok, lastMap, lastCall, gw>>
concVars == <<callers, lockHolder, waiters>>
appVars == <<tasks, nextTs, h, observing>>
vars == <<backend, authFile, mapFile, authTable, mapTable, lastTok, lastMap,
          lastCall, gw, callers, lockHolder, waiters, tasks, nextTs, h, observing>>

(***************************************************************************)
(* Bounds and value domains                                                *)
(***************************************************************************)
NumTenants == 2    \* tenants of the store specifications
NumAnchors == 2    \* messages already in the channel, each a possible thread anchor
NumCallers == 3    \* coroutines inside the file-backed store at once
MaxDispatch == 1   \* dispatch tasks created in one behaviour of Spec

None == "None"

\* self.lock = asyncio.Lock(): the value of lockHolder while nobody holds it
Unlocked == 0

TenantNames == <<"T1", "T2", "T3", "T4">>
TokenNames == <<"abc", "xyz">>
ConvNames == <<"c1", "c2">>

\* processing_msg.data["ts"] of the dispatch tasks, in the order of their creation
PlaceholderNames == <<"ph1", "ph2", "ph3", "ph4">>

TsNames == <<"ts01", "ts02", "ts03", "ts04", "ts05", "ts06", "ts07", "ts08",
             "ts09", "ts10", "ts11", "ts12", "ts13", "ts14", "ts15", "ts16",
             "ts17", "ts18", "ts19", "ts20", "ts21", "ts22", "ts23", "ts24">>

Tenants == {TenantNames[i] : i \in 1..NumTenants}
Tokens == {TokenNames[1], TokenNames[2]}
ConvIds == {ConvNames[1], ConvNames[2]}
\* The workspaces whose events the handler specifications follow
Teams == {TenantNames[1], TenantNames[2]}
Anchors == {TsNames[i] : i \in 1..NumAnchors}
Callers == 1..NumCallers

(***************************************************************************)
(* Python dict with string keys: insertion-ordered <<key, value>> pairs    *)
(***************************************************************************)
dict_has(d, k) == \E i \in 1..Len(d) : d[i][1] = k

\* data.get(key)
dict_get(d, k) ==
    IF dict_has(d, k) THEN d[CHOOSE i \in 1..Len(d) : d[i][1] = k][2] ELSE None

dict_set_append(d, k, v) == Append(d, <<k, v>>)

\* data[key] = value
dict_set(d, k, v) ==
    IF dict_has(d, k)
    THEN [i \in 1..Len(d) |-> IF d[i][1] = k THEN <<k, v>> ELSE d[i]]
    ELSE Append(d, <<k, v>>)

EmptyDict == <<>>

(***************************************************************************)
(* File-backed stores (FileAuthTokenStore, FileConversationMappingStore)   *)
(***************************************************************************)
\* A file: absent, or present with a text that is empty or a JSON document.
NoFile == [exists |-> FALSE, text |-> "none", doc |-> EmptyDict]
EmptyFile == [exists |-> TRUE, text |-> "empty", doc |-> EmptyDict]

\* json.dumps(data, indent=2) written to the file
json_dumps(data) == [exists |-> TRUE, text |-> "json", doc |-> data]

\* json.loads(content)
json_loads(file) == file.doc

\* aiofiles.open(path, "w"): creates or truncates the file
open_w(file) == EmptyFile

\* _load_data: FileNotFoundError -> {}, empty content -> {}, else the document
load_data(file) ==
    IF ~file.exists THEN EmptyDict
    ELSE IF file.text = "empty" THEN EmptyDict
    ELSE json_loads(file)

\* _save_data: open for writing, then write the whole document
save_data(file, data) == json_dumps(data)

\* FileAuthTokenStore.set_token as one completed call
file_set_token(file, user_id, potpie_token) ==
    save_data(file, dict_set(load_data(file), user_id, potpie_token))

\* FileAuthTokenStore.get_token
file_get_token(file, user_id) == dict_get(load_data(file), user_id)

\* FileConversationMappingStore.set_mapping as one completed call
file_set_mapping(file, parent_message_id, conversation_id) ==
    save_data(file, dict_set(load_data(file), parent_message_id, conversation_id))

\* FileConversationMappingStore.get_mapping
file_get_mapping(file, parent_message_id) ==
    dict_get(load_data(file), parent_message_id)

(***************************************************************************)
(* Relational stores (SQLAlchemyAuthTokenStore, ...ConversationMappingStore)*)
(***************************************************************************)
\* A table is a set of rows [key, value]; key is the primary key column.

\* insert(...).values(...).on_conflict_do_update(index_elements=[key], set_=...)
sql_upsert(table, key, value) ==
    {r \in table : r.key # key} \cup {[key |-> key, value |-> value]}

\* select(...).where(key == k), then first() / scalar_one_or_none()
sql_select(table, key) ==
    LET rows == {r \in table : r.key = key}
    IN IF rows = {} THEN None ELSE (CHOOSE r \in rows : TRUE).value

sql_set_token(table, user_id, potpie_token) == sql_upsert(table, user_id, potpie_token)
sql_get_token(table, user_id) == sql_select(table, user_id)

sql_set_mapping_keep_first(table, parent_message_id, conversation_id) ==
    IF \E r \in table : r.key = parent_message_id THEN table
    ELSE table \cup {[key |-> parent_message_id, value |-> conversation_id]}

sql_set_mapping(table, parent_message_id, conversation_id) ==
    sql_upsert(table, parent_message_id, conversation_id)
sql_get_mapping(table, parent_message_id) == sql_select(table, parent_message_id)

(***************************************************************************)
(* The store instances held by the process (main.py picks the backend)     *)
(***************************************************************************)
\* token_store.get_token(team_id) on the current state
get_token(user_id) ==
    IF backend = "file" THEN file_get_token(authFile, user_id)
    ELSE sql_get_token(authTable, user_id)

\* conversation_mapping_store.get_mapping(thread_ts) on the current state
get_mapping(parent_message_id) ==
    IF backend = "file" THEN file_get_mapping(mapFile, parent_message_id)
    ELSE sql_get_mapping(mapTable, parent_message_id)

\* token_store.set_token(user_id, potpie_token), completed
set_token(user_id, potpie_token) ==
    /\ authFile' = IF backend = "file"
                   THEN file_set_token(authFile, user_id, potpie_token)
                   ELSE authFile
    /\ authTable' = IF backend = "sql"
                    THEN sql_set_token(authTable, user_id, potpie_token)
                    ELSE authTable

\* conversation_mapping_store.set_mapping(parent_message_id, conversation_id)
set_mapping(parent_message_id, conversation_id) ==
    /\ mapFile' = IF backend = "file"
                  THEN file_set_mapping(mapFile, parent_message_id, conversation_id)
                  ELSE mapFile
    /\ mapTable' = IF backend = "sql"
                   THEN sql_set_mapping(mapTable, parent_message_id, conversation_id)
                   ELSE mapTable

\* Number of credentials held for a tenant, and of mappings held for an anchor
token_entries(user_id) ==
    IF backend = "file"
    THEN Cardinality({i \in 1..Len(load_data(authFile)) :
                          load_data(authFile)[i][1] = user_id})
    ELSE Cardinality({r \in authTable : r.key = user_id})

mapping_entries(parent_message_id) ==
    IF backend = "file"
    THEN Cardinality({i \in 1..Len(load_data(mapFile)) :
                          load_data(mapFile)[i][1] = parent_message_id})
    ELSE Cardinality({r \in mapTable : r.key = parent_message_id})

(***************************************************************************)
(* Initial values                                                          *)
(***************************************************************************)
\* Record of one handler invocation: the gate reads (token; mapped: whether the
\* mapping store held the event's thread_ts), the texts it emitted (say,
\* ack, chat_postMessage, chat_postEphemeral), the gateway operations it
\* invoked, whether it wrote the mapping store, opened a modal, created a
\* dispatch task, or let an exception escape.
HandlerRec(kind, team) ==
    [kind |-> kind, team |-> team, thread_ts |-> None, token |-> None,
     conv |-> None, says |-> <<>>, gateway |-> <<>>, wrote |-> FALSE,
     mapped |-> FALSE, modal |-> FALSE, options |-> <<>>, scheduled |-> FALSE,
     raised |-> FALSE, store_error |-> None, created |-> "none",
     ephemerals |-> 0]

NoHandler == HandlerRec("none", None)

\* The value h takes after a handler invocation
Observed(rec) == IF observing THEN rec ELSE NoHandler

StoreInit ==
    /\ backend \in {"file", "sql"}
    /\ authFile = NoFile
    /\ mapFile = NoFile
    /\ authTable = {}
    /\ mapTable = {}

HistInit ==
    /\ lastTok = [t \in Tenants |-> None]
    /\ lastMap = [a \in Anchors |-> None]
    /\ lastCall = [op |-> "none", key |-> None, old |-> None]
    /\ gw = [op |-> "none"]

ConcIdle ==
    /\ callers = [c \in Callers |-> [pc |-> "off"]]
    /\ lockHolder = Unlocked
    /\ waiters = <<>>

AppIdle ==
    /\ tasks = <<>>
    /\ nextTs = NumAnchors + 1
    /\ h = NoHandler
    /\ observing = FALSE

(***************************************************************************)
(* SpecStore: completed store calls, one after the other                   *)
(***************************************************************************)
SetToken(t, v) ==
    /\ set_token(t, v)
    /\ lastTok' = [lastTok EXCEPT ![t] = v]
    /\ lastCall' = [op |-> "set_token", key |-> t, old |-> get_token(t)]
    /\ UNCHANGED <<backend, mapFile, mapTable, lastMap, gw>>
    /\ UNCHANGED concVars
    /\ UNCHANGED appVars

SetMapping(a, c) ==
    /\ set_mapping(a, c)
    /\ lastMap' = [lastMap EXCEPT ![a] = c]
    /\ lastCall' = [op |-> "set_mapping", key |-> a, old |-> get_mapping(a)]
    /\ UNCHANGED <<backend, authFile, authTable, lastTok, gw>>
    /\ UNCHANGED concVars
    /\ UNCHANGED appVars

StoreInitAll == StoreInit /\ HistInit /\ ConcIdle /\ AppIdle

StoreNext ==
    \/ \E t \in Tenants, v \in Tokens : SetToken(t, v)
    \/ \E a \in Anchors, c \in ConvIds : SetMapping(a, c)

SpecStore == StoreInitAll /\ [][StoreNext]_vars

\* C1: on either backend, after any sequence of completed set_token calls,
\* get_token(T) is the token of the most recent set_token(T, _), or None when
\* there was none, and the store holds at most one credential per tenant.
C1_GetTokenIsLastSet ==
    \A t \in Tenants :
        /\ get_token(t) = lastTok[t]
        /\ token_entries(t) <= 1

\* C1 case: a set_token has just replaced a different token of the same tenant
\* on the file backend, while another tenant has never been set.
C1_Witness ==
    /\ backend = "file"
    /\ lastCall.op = "set_token"
    /\ lastCall.old # None
    /\ lastCall.old # lastTok[lastCall.key]
    /\ get_token(lastCall.key) = lastTok[lastCall.key]
    /\ \E t \in Tenants : lastTok[t] = None /\ get_token(t) = None

\* C2: on either backend, get_mapping(A) is None before any set_mapping(A, _)
\* and afterwards the conversation id of the most recent set_mapping(A, _);
\* a set_mapping on another anchor never changes it.
C2_GetMappingIsLastSet ==
    \A a \in Anchors : get_mapping(a) = lastMap[a]

\* C2 case: on the SQL backend a set_mapping has just replaced the value of one
\* anchor while a different anchor keeps the value set for it earlier.
C2_Witness ==
    /\ backend = "sql"
    /\ lastCall.op = "set_mapping"
    /\ lastCall.old # None
    /\ lastCall.old # lastMap[lastCall.key]
    /\ \E a \in Anchors :
           /\ a # lastCall.key
           /\ lastMap[a] # None
           /\ get_mapping(a) = lastMap[a]

(***************************************************************************)
(* SpecConc: coroutines interleaving on one FileAuthTokenStore instance.   *)
(* A coroutine runs without interruption between two awaits that suspend:  *)
(* waiting for the lock, and the file operations of aiofiles.              *)
(***************************************************************************)
IdleCaller == [pc |-> "idle", op |-> "none", key |-> None, val |-> None,
               data |-> EmptyDict, ret |-> None]

\* A lock that every coroutine is given at once
lock_acquire_unguarded(cs, holder, ws, c, gotPc, waitPc) ==
    [callers |-> [cs EXCEPT ![c].pc = gotPc], holder |-> c, waiters |-> ws]

\* asyncio.Lock.acquire by coroutine c: taken at once when the lock is free and
\* nobody waits, else c joins the FIFO of waiters.
lock_acquire(cs, holder, ws, c, gotPc, waitPc) ==
    IF holder = Unlocked /\ ws = <<>>
    THEN [callers |-> [cs EXCEPT ![c].pc = gotPc], holder |-> c, waiters |-> ws]
    ELSE [callers |-> [cs EXCEPT ![c].pc = waitPc], holder |-> holder,
          waiters |-> Append(ws, c)]

\* asyncio.Lock.release: the first waiter is woken and is the next holder.
lock_release(cs, ws) ==
    IF ws = <<>>
    THEN [callers |-> cs, holder |-> Unlocked, waiters |-> ws]
    ELSE [callers |-> [cs EXCEPT ![Head(ws)].pc =
                          IF @ = "load_wait" THEN "load_read" ELSE "save_open"],
          holder |-> Head(ws), waiters |-> Tail(ws)]

\* set_token / get_token is called: the coroutine runs to `async with self.lock`
\* of _load_data.
ConcCall(c, op, key, val) ==
    /\ callers[c].pc = "idle"
    /\ LET started == [callers EXCEPT ![c] = [IdleCaller EXCEPT
                          !.op = op, !.key = key, !.val = val]]
           r == lock_acquire(started, lockHolder, waiters, c, "load_read", "load_wait")
       IN /\ callers' = r.callers
          /\ lockHolder' = r.holder
          /\ waiters' = r.waiters
    /\ UNCHANGED storeVars
    /\ UNCHANGED histVars
    /\ UNCHANGED appVars

\* _load_data under the lock, the lock released on return; get_token then
\* returns data.get(key); set_token assigns data[key] and enters _save_data,
\* where it asks for the lock again.
ConcLoad(c) ==
    /\ callers[c].pc = "load_read"
    /\ lockHolder = c
    /\ LET data == load_data(authFile)
           rel == lock_release(callers, waiters)
       IN IF callers[c].op = "get"
          THEN /\ callers' = [rel.callers EXCEPT
                                 ![c].pc = "done",
                                 ![c].data = data,
                                 ![c].ret = dict_get(data, callers[c].key)]
               /\ lockHolder' = rel.holder
               /\ waiters' = rel.waiters
          ELSE LET mod == [rel.callers EXCEPT
                              ![c].data = dict_set(data, callers[c].key, callers[c].val)]
                   r == lock_acquire(mod, rel.holder, rel.waiters, c,
                                     "save_open", "save_wait")
               IN /\ callers' = r.callers
                  /\ lockHolder' = r.holder
                  /\ waiters' = r.waiters
    /\ UNCHANGED storeVars
    /\ UNCHANGED histVars
    /\ UNCHANGED appVars

\* _save_data: aiofiles.open(path, "w") truncates the file
ConcSaveOpen(c) ==
    /\ callers[c].pc = "save_open"
    /\ lockHolder = c
    /\ authFile' = open_w(authFile)
    /\ callers' = [callers EXCEPT ![c].pc = "save_write"]
    /\ UNCHANGED <<backend, mapFile, authTable, mapTable, lockHolder, waiters>>
    /\ UNCHANGED histVars
    /\ UNCHANGED appVars

\* _save_data: f.write(json.dumps(data)), then the lock is released
ConcSaveWrite(c) ==
    /\ callers[c].pc = "save_write"
    /\ lockHolder = c
    /\ authFile' = save_data(authFile, callers[c].data)
    /\ LET rel == lock_release([callers EXCEPT ![c].pc = "done"], waiters)
       IN /\ callers' = rel.callers
          /\ lockHolder' = rel.holder
          /\ waiters' = rel.waiters
    /\ UNCHANGED <<backend, mapFile, authTable, mapTable>>
    /\ UNCHANGED histVars
    /\ UNCHANGED appVars

\* The document a previous run of the process may have left behind.
ConcInit ==
    /\ backend = "file"
    /\ authFile \in {NoFile, EmptyFile}
                    \cup {json_dumps(<<<<t, v>>>>) : t \in Tenants, v \in Tokens}
    /\ mapFile = NoFile
    /\ authTable = {}
    /\ mapTable = {}
    /\ HistInit
    /\ callers = [c \in Callers |-> IdleCaller]
    /\ lockHolder = Unlocked
    /\ waiters = <<>>
    /\ AppIdle

ConcNext ==
    \/ \E c \in Callers, t \in Tenants, v \in Tokens : ConcCall(c, "set", t, v)
    \/ \E c \in Callers, t \in Tenants : ConcCall(c, "get", t, None)
    \/ \E c \in Callers : ConcLoad(c)
    \/ \E c \in Callers : ConcSaveOpen(c)
    \/ \E c \in Callers : ConcSaveWrite(c)

SpecConc == ConcInit /\ [][ConcNext]_vars

ConcAllReturned == \A c \in Callers : callers[c].pc \in {"idle", "done"}

\* C3: when set_token calls for different tenants run concurrently on one
\* file-backed store, then after all calls have returned every tenant that
\* exactly one call has set holds the token of that call.
C3_ConcurrentSetsKept ==
    ConcAllReturned =>
        \A c \in Callers :
            (/\ callers[c].pc = "done"
             /\ callers[c].op = "set"
             /\ \A d \in Callers \ {c} :
                    ~(callers[d].op = "set" /\ callers[d].key = callers[c].key))
            => file_get_token(authFile, callers[c].key) = callers[c].val

\* SpecLock: the calls of SpecConc, all of them for the credential of one
\* tenant. The lock is taken and released without regard to the key.
LockNext ==
    \/ \E c \in Callers : ConcCall(c, "set", TenantNames[1], TokenNames[1])
    \/ \E c \in Callers : ConcCall(c, "get", TenantNames[1], None)
    \/ \E c \in Callers : ConcLoad(c)
    \/ \E c \in Callers : ConcSaveOpen(c)
    \/ \E c \in Callers : ConcSaveWrite(c)

SpecLock == ConcInit /\ [][LockNext]_vars

\* C22: no get or set on a file-backed store reads the file between the
\* truncation and the end of a write: whenever a call reads the file in
\* _load_data, no call has opened the file for writing without having
\* written it.
C22_ReadsSeeCompleteDocument ==
    [][\A c \in Callers :
          (callers[c].pc = "load_read" /\ callers'[c].pc # "load_read")
          => \A d \in Callers : callers[d].pc # "save_write"]_vars

\* A call is about to read the file while another call, which has read it
\* and changed its copy, waits for the lock to write it
C22_Witness ==
    \E c \in Callers, d \in Callers :
        /\ callers[c].pc = "load_read"
        /\ callers[d].pc = "save_wait"
        /\ authFile.exists

\* C18, for the credentials of a file-backed store: a token that a get_token
\* call has returned is still returned by get_token after every other call has
\* returned, whatever the interleaving of the set_token calls.
C18_ObservedTokenKept ==
    ConcAllReturned =>
        \A c \in Callers :
            (/\ callers[c].pc = "done"
             /\ callers[c].op = "get"
             /\ callers[c].ret # None)
            => file_get_token(authFile, callers[c].key) # None

(***************************************************************************)
(* The handlers of app.py and the dispatch tasks they create.              *)
(* A handler invocation is one step; a dispatch task takes one step per    *)
(* awaited call. Every call to the chat platform either returns or raises. *)
(* The channel already holds the messages Anchors; every message that      *)
(* starts a dispatch gets the next id of TsNames, and the placeholder that *)
(* the i-th dispatch task posts inside the thread gets PlaceholderNames[i].*)
(***************************************************************************)
AuthGuidance == "You have not authenticated yet, set your token using /authenticate"
StartGuidance == "Use /potpie command to start a conversation"
AuthSuccess == "You have been Authenticated Successfully"
RetrieveError == "Error retriving data"
NoReadyProjects == "No ready projects, please parse your repo before starting conversation"
NoAgents == "No agents available"
OpeningText == "Project / Agent / query"
CreateFailed == "Failed to create conversation"
ProcessingText == "_Processing_"
MentionApology == "There was some error at our end"
QueryApology == "Error processing your request"

\* Ids of the top-level messages of the channel: the possible thread anchors
Messages == {TsNames[i] : i \in 1..(nextTs - 1)}

\* Result of a gateway call: a value, an Err, or an exception of the transport
\* Err.status_code: int = -1
default_status_code == 0 - 1

\* class Err(BaseModel)
Err(message, status_code) ==
    [tag |-> "Err", message |-> message, status_code |-> status_code, value |-> None]

\* a domain value is returned
Value(v) == [tag |-> "value", message |-> None, status_code |-> 0, value |-> v]

\* an exception leaves the operation; nothing in PotpieAPIClient catches any
Raises(error) == [tag |-> "raise", message |-> error, status_code |-> 0, value |-> None]

\* No Err has been returned
NoErr == [tag |-> "none", message |-> None, status_code |-> 0, value |-> None]

\* The Err results send_message is given to return: they differ in message
\* and in status_code
ErrResults == {Err("boom", 500), Err("denied", 401)}

\* What a send_message call can end with
SendResults == {Value("reply"), Raises("ClientError")} \cup ErrResults

\* One effect on the chat platform that a dispatch task achieved
Effect(call, what, target) == [call |-> call, what |-> what, target |-> target]

\* A handler that awaits the coroutine instead of scheduling it: when the
\* handler is over the task has already made its remote call
NewTask_awaited(kind, potpie_token, conversation_id, thread_id, message_id) ==
    [kind |-> kind, token |-> potpie_token, conv |-> conversation_id,
     thread |-> thread_id, msg |-> message_id, pc |-> "sending",
     ph |-> None, sends |-> 1, deletes |-> 0, res |-> "none", err |-> NoErr,
     sent |-> <<>>, out |-> <<>>, excepted |-> FALSE, raised |-> FALSE]

\* asyncio.create_task(process_mention_query_task(...)) / (process_query_task(...))
NewTask(kind, potpie_token, conversation_id, thread_id, message_id) ==
    [kind |-> kind, token |-> potpie_token, conv |-> conversation_id,
     thread |-> thread_id, msg |-> message_id, pc |-> "placeholder",
     ph |-> None, sends |-> 0, deletes |-> 0, res |-> "none", err |-> NoErr,
     sent |-> <<>>, out |-> <<>>, excepted |-> FALSE, raised |-> FALSE]

\* Auth Guard of the handlers: `if potpie_token is None: ... return`
auth_guard_off(potpie_token) == TRUE

auth_guard(potpie_token) == potpie_token # None

\* mention: `if thread_ts is None` / `if conversation_id is None: ... return`
mapping_guard_off(thread_ts, conversation_id) == TRUE

mapping_guard(thread_ts, conversation_id) ==
    thread_ts # None /\ conversation_id # None

(***************************************************************************)
(* @app.event("app_mention"): what one invocation does, as a HandlerRec    *)
(***************************************************************************)
mention(team_id, thread_ts, eyes_ok) ==
    LET potpie_token == get_token(team_id)
        conversation_id == IF thread_ts = None THEN None ELSE get_mapping(thread_ts)
        rec == [HandlerRec("mention", team_id) EXCEPT
                   !.thread_ts = thread_ts, !.token = potpie_token,
                   !.mapped = conversation_id # None]
    IN  IF ~auth_guard(potpie_token)
        THEN [rec EXCEPT !.says = <<AuthGuidance>>]
        ELSE IF ~mapping_guard(thread_ts, conversation_id)
        THEN [rec EXCEPT !.says = <<StartGuidance>>]
        ELSE IF ~eyes_ok
        THEN [rec EXCEPT !.conv = conversation_id, !.raised = TRUE]
        ELSE [rec EXCEPT !.conv = conversation_id, !.scheduled = TRUE]

\* The event's message is TsNames[nextTs]; its id is kept only by the task.
Mention(team_id, thread_ts, eyes_ok) ==
    LET r == mention(team_id, thread_ts, eyes_ok)
    IN  /\ h' = Observed(r)
        /\ IF r.scheduled
           THEN /\ Len(tasks) < MaxDispatch
                /\ tasks' = Append(tasks, NewTask("mention", r.token, r.conv,
                                                  thread_ts, TsNames[nextTs]))
                /\ nextTs' = nextTs + 1
           ELSE UNCHANGED <<tasks, nextTs>>
        /\ UNCHANGED observing
        /\ UNCHANGED storeVars
        /\ UNCHANGED histVars
        /\ UNCHANGED concVars

(***************************************************************************)
(* @app.view("handle_authentication")                                      *)
(***************************************************************************)
handle_authentication(user_id, potpie_token, post_ok) ==
    [HandlerRec("authentication", user_id) EXCEPT
        !.token = potpie_token,
        !.says = IF post_ok THEN <<AuthSuccess>> ELSE <<>>]

HandleAuthentication(user_id, potpie_token, post_ok) ==
    /\ set_token(user_id, potpie_token)
    /\ h' = Observed(handle_authentication(user_id, potpie_token, post_ok))
    /\ UNCHANGED <<tasks, nextTs, observing>>
    /\ UNCHANGED <<backend, mapFile, mapTable>>
    /\ UNCHANGED histVars
    /\ UNCHANGED concVars

(***************************************************************************)
(* @app.command("/potpie")                                                 *)
(***************************************************************************)
\* What fetch_projects returns: Err, an exception, or the list of projects
\* (the status of each).
ProjectResults ==
    {<<"Err">>, <<"raise">>, <<>>, <<"ready">>, <<"error">>, <<"error", "ready">>}

\* What fetch_agents returns: Err, an exception, or the list of agents
AgentResults == {<<"Err">>, <<"raise">>, <<>>, <<"agent">>}

IsFailure(res) == res = <<"Err">> \/ res = <<"raise">>

\* A modal that offers every project fetched
ready_projects_unfiltered(res) == res

\* [project for project in res if project.status == "ready"]
ready_projects(res) == SelectSeq(res, LAMBDA status : status = "ready")

start_conversation(team_id, projects, agents, open_ok) ==
    LET potpie_token == get_token(team_id)
        rec == [HandlerRec("potpie", team_id) EXCEPT !.token = potpie_token]
        both == [rec EXCEPT !.gateway = <<"fetch_projects", "fetch_agents">>]
    IN  IF ~auth_guard(potpie_token)
        THEN [rec EXCEPT !.says = <<AuthGuidance>>]
        ELSE IF IsFailure(projects)
        THEN [rec EXCEPT !.gateway = <<"fetch_projects">>, !.says = <<RetrieveError>>]
        ELSE IF IsFailure(agents)
        THEN [both EXCEPT !.says = <<RetrieveError>>]
        ELSE IF Len(ready_projects(projects)) = 0
        THEN [both EXCEPT !.says = <<NoReadyProjects>>]
        ELSE IF Len(agents) = 0
        THEN [both EXCEPT !.says = <<NoAgents>>]
        ELSE [both EXCEPT !.options = ready_projects(projects),
                          !.modal = open_ok, !.raised = ~open_ok]

StartConversation(team_id, projects, agents, open_ok) ==
    /\ h' = Observed(start_conversation(team_id, projects, agents, open_ok))
    /\ UNCHANGED <<tasks, nextTs, observing>>
    /\ UNCHANGED storeVars
    /\ UNCHANGED histVars
    /\ UNCHANGED concVars

(***************************************************************************)
(* @app.view("start-conversation-modal")                                   *)
(***************************************************************************)
\* A handler that takes whatever create_conversation returned for a
\* conversation id
handle_submission_err_unchecked(team_id, conv, created, post_ok, ephemeral_ok, ts) ==
    LET potpie_token == get_token(team_id)
        rec == [HandlerRec("submission", team_id) EXCEPT !.token = potpie_token]
        called == [rec EXCEPT !.gateway = <<"create_conversation">>,
                              !.created = created]
    IN  IF ~auth_guard(potpie_token)
        THEN [rec EXCEPT !.says = <<AuthGuidance>>]
        ELSE IF created = "raise" \/ ~post_ok
        THEN [called EXCEPT !.says = IF ephemeral_ok THEN <<CreateFailed>> ELSE <<>>,
                            !.ephemerals = 1,
                            !.raised = ~ephemeral_ok]
        ELSE [called EXCEPT !.conv = conv, !.thread_ts = ts,
                            !.says = <<OpeningText>>,
                            !.wrote = TRUE, !.scheduled = TRUE]

\* conv: the id the remote service gives the conversation; created: how
\* create_conversation ends; ts: the id the platform gives the opening message
handle_submission(team_id, conv, created, post_ok, ephemeral_ok, ts) ==
    LET potpie_token == get_token(team_id)
        rec == [HandlerRec("submission", team_id) EXCEPT !.token = potpie_token]
        called == [rec EXCEPT !.gateway = <<"create_conversation">>,
                              !.created = created]
    IN  IF ~auth_guard(potpie_token)
        THEN [rec EXCEPT !.says = <<AuthGuidance>>]
        ELSE IF created # "value" \/ ~post_ok
        THEN [called EXCEPT !.says = IF ephemeral_ok THEN <<CreateFailed>> ELSE <<>>,
                            !.ephemerals = 1,
                            !.raised = ~ephemeral_ok]
        ELSE [called EXCEPT !.conv = conv, !.thread_ts = ts,
                            !.says = <<OpeningText>>,
                            !.wrote = TRUE, !.scheduled = TRUE]

HandleSubmission(team_id, conv, created, post_ok, ephemeral_ok) ==
    LET r == handle_submission(team_id, conv, created, post_ok, ephemeral_ok,
                               TsNames[nextTs])
    IN  /\ h' = Observed(r)
        /\ IF r.scheduled
           THEN /\ Len(tasks) < MaxDispatch
                /\ set_mapping(r.thread_ts, r.conv)
                /\ tasks' = Append(tasks, NewTask("query", r.token, r.conv,
                                                  r.thread_ts, r.thread_ts))
                /\ nextTs' = nextTs + 1
           ELSE UNCHANGED <<tasks, nextTs, mapFile, mapTable>>
        /\ UNCHANGED observing
        /\ UNCHANGED <<backend, authFile, authTable>>
        /\ UNCHANGED histVars
        /\ UNCHANGED concVars

(***************************************************************************)
(* The dispatch tasks. pc names the awaited call the task is about to make *)
(* or is waiting for; "done" is the end of the coroutine, `raised` tells   *)
(* whether it ended with an exception that nothing caught, `excepted`      *)
(* whether its except block was entered.                                   *)
(***************************************************************************)
Running(i, kind, pc) ==
    /\ i \in 1..Len(tasks)
    /\ tasks[i].kind = kind
    /\ tasks[i].pc = pc

SetTask(i, t) == tasks' = [tasks EXCEPT ![i] = t]

did(t, effect) == [t EXCEPT !.out = Append(@, effect)]

goto(t, pc) == [t EXCEPT !.pc = pc]

\* An exception of the placeholder post that is swallowed: the task goes on
\* to send_message
except_placeholder_ignored(t, pc) ==
    IF t.pc = "placeholder"
    THEN [t EXCEPT !.pc = "send"]
    ELSE [t EXCEPT !.pc = pc, !.excepted = TRUE]

\* An except block that sends the query once more when send_message failed
except_retrying(t, pc) ==
    IF t.pc = "sending" /\ t.sends < 2
    THEN [t EXCEPT !.pc = "send"]
    ELSE [t EXCEPT !.pc = pc, !.excepted = TRUE]

\* The except block is entered
except(t, pc) == [t EXCEPT !.pc = pc, !.excepted = TRUE]

\* An exception leaves the coroutine: the task is over
escape(t) == [t EXCEPT !.pc = "done", !.raised = TRUE]

\* A dispatch task that writes over the mapping store as it goes
TaskFrame_clears_mappings ==
    /\ UNCHANGED <<h, observing>>
    /\ UNCHANGED <<backend, authFile, authTable>>
    /\ mapFile' = NoFile
    /\ mapTable' = {}
    /\ UNCHANGED histVars
    /\ UNCHANGED concVars

\* What a step of a dispatch task leaves alone: the tasks hold the client and
\* the gateway, never token_store or conversation_mapping_store
TaskFrame ==
    /\ UNCHANGED <<h, observing>>
    /\ UNCHANGED storeVars
    /\ UNCHANGED histVars
    /\ UNCHANGED concVars

\* The text the except block posts, with the caught exception e in scope: a
\* literal
failure_text_of_error(text, e) == e.message

failure_text(text, e) == text

\* A task that looks the credential and the conversation up again when it
\* makes its remote call
send_arguments_read_again(t) == <<get_token(TenantNames[1]), get_mapping(t.thread)>>

\* send_message(potpie_token, conversation_id, query): the parameters of the
\* coroutine, bound when the handler created the task
send_arguments(t) == <<t.token, t.conv>>

\* client.chat_delete is called: one more deletion attempted, whatever its end
deleting(t) == [t EXCEPT !.deletes = @ + 1]

\* chat_delete(channel, ts=processing_msg.data["ts"]): the message deleted
delete_target_thread(t) == t.thread

delete_target(t) == t.ph

(***************************************************************************)
(* process_mention_query_task                                              *)
(***************************************************************************)
\* try: processing_msg = await client.chat_postMessage("_Processing_ ...")
MentionPlaceholder(i, ok) ==
    /\ Running(i, "mention", "placeholder")
    /\ IF ok
       THEN SetTask(i, [did(tasks[i], Effect("post", ProcessingText, tasks[i].thread))
                           EXCEPT !.ph = PlaceholderNames[i], !.pc = "send"])
       ELSE SetTask(i, except(tasks[i], "react_x"))
    /\ UNCHANGED nextTs
    /\ TaskFrame

\* res = await potpie_client.send_message(...): the request leaves
MentionSend(i) ==
    /\ Running(i, "mention", "send")
    /\ SetTask(i, [tasks[i] EXCEPT !.sends = @ + 1, !.pc = "sending",
                                   !.sent = send_arguments(tasks[i])])
    /\ UNCHANGED nextTs
    /\ TaskFrame

\* send_message returns a reply, returns Err (-> raise Exception(Err)), or raises
MentionSendReturn(i, r) ==
    /\ Running(i, "mention", "sending")
    /\ SetTask(i, IF r.tag = "value"
                  THEN [tasks[i] EXCEPT !.res = r.tag, !.pc = "reply"]
                  ELSE except([tasks[i] EXCEPT !.res = r.tag,
                                              !.err = IF r.tag = "Err" THEN r ELSE NoErr],
                              "react_x"))
    /\ UNCHANGED nextTs
    /\ TaskFrame

\* await client.chat_postMessage(text=converter.convert(res), thread_ts=thread_id)
MentionReply(i, render_ok, ok) ==
    /\ Running(i, "mention", "reply")
    /\ SetTask(i, IF render_ok /\ ok
                  THEN goto(did(tasks[i], Effect("post", "reply", tasks[i].thread)),
                            "thumbsup")
                  ELSE except(tasks[i], "react_x"))
    /\ UNCHANGED nextTs
    /\ TaskFrame

\* await client.reactions_add(name="thumbsup", timestamp=message_id)
MentionThumbsup(i, ok) ==
    /\ Running(i, "mention", "thumbsup")
    /\ SetTask(i, IF ok
                  THEN goto(did(tasks[i], Effect("react", "thumbsup", tasks[i].msg)),
                            "delete")
                  ELSE except(tasks[i], "react_x"))
    /\ UNCHANGED nextTs
    /\ TaskFrame

\* await client.chat_delete(channel=channel_id, ts=processing_msg.data["ts"])
MentionDelete(i, ok) ==
    /\ Running(i, "mention", "delete")
    /\ SetTask(i, IF ok
                  THEN goto(did(deleting(tasks[i]), Effect("delete", "message",
                                                 delete_target(tasks[i]))), "done")
                  ELSE except(deleting(tasks[i]), "react_x"))
    /\ UNCHANGED nextTs
    /\ TaskFrame

\* except Exception: await client.reactions_add(name="x", timestamp=message_id)
MentionReactX(i, ok) ==
    /\ Running(i, "mention", "react_x")
    /\ SetTask(i, IF ok
                  THEN goto(did(tasks[i], Effect("react", "x", tasks[i].msg)),
                            "apology")
                  ELSE escape(tasks[i]))
    /\ UNCHANGED nextTs
    /\ TaskFrame

\* except Exception: await client.chat_postMessage("There was some error ...")
MentionApologise(i, ok) ==
    /\ Running(i, "mention", "apology")
    /\ SetTask(i, IF ok
                  THEN goto(did(tasks[i], Effect("post",
                                   failure_text(MentionApology, tasks[i].err),
                                   tasks[i].thread)), "done")
                  ELSE escape(tasks[i]))
    /\ UNCHANGED nextTs
    /\ TaskFrame

(***************************************************************************)
(* process_query_task                                                      *)
(***************************************************************************)
\* try: processing_msg = await client.chat_postMessage("_Processing_ ...")
QueryPlaceholder(i, ok) ==
    /\ Running(i, "query", "placeholder")
    /\ IF ok
       THEN SetTask(i, [did(tasks[i], Effect("post", ProcessingText, tasks[i].thread))
                           EXCEPT !.ph = PlaceholderNames[i], !.pc = "eyes"])
       ELSE SetTask(i, except(tasks[i], "apology"))
    /\ UNCHANGED nextTs
    /\ TaskFrame

\* await client.reactions_add(name="eyes", timestamp=thread_id)
QueryEyes(i, ok) ==
    /\ Running(i, "query", "eyes")
    /\ SetTask(i, IF ok
                  THEN goto(did(tasks[i], Effect("react", "eyes", tasks[i].thread)),
                            "send")
                  ELSE except(tasks[i], "apology"))
    /\ UNCHANGED nextTs
    /\ TaskFrame

\* ans = await potpie_client.send_message(...): the request leaves
QuerySend(i) ==
    /\ Running(i, "query", "send")
    /\ SetTask(i, [tasks[i] EXCEPT !.sends = @ + 1, !.pc = "sending",
                                   !.sent = send_arguments(tasks[i])])
    /\ UNCHANGED nextTs
    /\ TaskFrame

\* send_message returns a reply, returns Err (-> raise Exception(Err)), or raises
QuerySendReturn(i, r) ==
    /\ Running(i, "query", "sending")
    /\ SetTask(i, IF r.tag = "value"
                  THEN [tasks[i] EXCEPT !.res = r.tag, !.pc = "reply"]
                  ELSE except([tasks[i] EXCEPT !.res = r.tag,
                                              !.err = IF r.tag = "Err" THEN r ELSE NoErr],
                              "apology"))
    /\ UNCHANGED nextTs
    /\ TaskFrame

\* await client.chat_postMessage(text=converter.convert(ans) + "...", thread_ts=thread_id)
QueryReply(i, render_ok, ok) ==
    /\ Running(i, "query", "reply")
    /\ SetTask(i, IF render_ok /\ ok
                  THEN goto(did(tasks[i], Effect("post", "reply", tasks[i].thread)),
                            "thumbsup")
                  ELSE except(tasks[i], "apology"))
    /\ UNCHANGED nextTs
    /\ TaskFrame

\* await client.reactions_add(name="thumbsup", timestamp=thread_id)
QueryThumbsup(i, ok) ==
    /\ Running(i, "query", "thumbsup")
    /\ SetTask(i, IF ok
                  THEN goto(did(tasks[i], Effect("react", "thumbsup", tasks[i].thread)),
                            "delete")
                  ELSE except(tasks[i], "apology"))
    /\ UNCHANGED nextTs
    /\ TaskFrame

\* await client.chat_delete(channel=channel_id, ts=processing_msg.data["ts"])
QueryDelete(i, ok) ==
    /\ Running(i, "query", "delete")
    /\ SetTask(i, IF ok
                  THEN goto(did(deleting(tasks[i]), Effect("delete", "message",
                                                 delete_target(tasks[i]))), "done")
                  ELSE except(deleting(tasks[i]), "apology"))
    /\ UNCHANGED nextTs
    /\ TaskFrame

\* except Exception: await client.chat_postMessage("Error processing your request ...")
QueryApologise(i, ok) ==
    /\ Running(i, "query", "apology")
    /\ SetTask(i, IF ok
                  THEN goto(did(tasks[i], Effect("post",
                                   failure_text(QueryApology, tasks[i].err),
                                   tasks[i].thread)), "done")
                  ELSE escape(tasks[i]))
    /\ UNCHANGED nextTs
    /\ TaskFrame

(***************************************************************************)
(* Spec                                                                    *)
(***************************************************************************)
\* The stores are persistent: a fresh installation, or the credential of one
\* tenant and the mapping of one thread left by an earlier run of the process.
PersistedInit ==
    /\ backend \in {"file", "sql"}
    /\ \E auth \in BOOLEAN :
          /\ authFile = IF auth /\ backend = "file"
                        THEN file_set_token(NoFile, TenantNames[1], TokenNames[1])
                        ELSE NoFile
          /\ authTable = IF auth /\ backend = "sql"
                         THEN sql_set_token({}, TenantNames[1], TokenNames[1])
                         ELSE {}
    /\ \E map \in BOOLEAN :
          /\ mapFile = IF map /\ backend = "file"
                       THEN file_set_mapping(NoFile, TsNames[1], ConvNames[1])
                       ELSE NoFile
          /\ mapTable = IF map /\ backend = "sql"
                        THEN sql_set_mapping({}, TsNames[1], ConvNames[1])
                        ELSE {}

Init == PersistedInit /\ HistInit /\ ConcIdle /\ AppIdle

TaskIds == 1..MaxDispatch

\* Inputs that the code never reads on the path taken are not varied: the
\* conversation id and the opening post when create_conversation fails, the
\* ephemeral post when nothing failed.
SubmissionInputs ==
    {<<c, "value", TRUE, TRUE>> : c \in ConvIds}
    \cup {<<ConvNames[1], "value", FALSE, eok>> : eok \in BOOLEAN}
    \cup {<<ConvNames[1], r, TRUE, eok>> : r \in {"Err", "raise"}, eok \in BOOLEAN}

\* agents and the modal are not varied when fetch_projects has failed
PotpieInputs ==
    {<<p, <<>>, TRUE>> : p \in {p \in ProjectResults : IsFailure(p)}}
    \cup {<<p, a, ok>> : p \in {p \in ProjectResults : ~IsFailure(p)},
                         a \in AgentResults, ok \in BOOLEAN}

\* Spec follows the events of one workspace and the credential it submits
Workspace == TenantNames[1]

Next ==
    \/ \E ok \in BOOLEAN : HandleAuthentication(Workspace, TokenNames[1], ok)
    \/ \E th \in Messages \cup {None}, ok \in BOOLEAN : Mention(Workspace, th, ok)
    \/ \E in \in SubmissionInputs :
           HandleSubmission(Workspace, in[1], in[2], in[3], in[4])
    \/ \E i \in TaskIds, ok \in BOOLEAN : MentionPlaceholder(i, ok)
    \/ \E i \in TaskIds : MentionSend(i)
    \/ \E i \in TaskIds, r \in SendResults : MentionSendReturn(i, r)
    \/ \E i \in TaskIds, rok \in BOOLEAN, ok \in BOOLEAN : MentionReply(i, rok, ok)
    \/ \E i \in TaskIds, ok \in BOOLEAN : MentionThumbsup(i, ok)
    \/ \E i \in TaskIds, ok \in BOOLEAN : MentionDelete(i, ok)
    \/ \E i \in TaskIds, ok \in BOOLEAN : MentionReactX(i, ok)
    \/ \E i \in TaskIds, ok \in BOOLEAN : MentionApologise(i, ok)
    \/ \E i \in TaskIds, ok \in BOOLEAN : QueryPlaceholder(i, ok)
    \/ \E i \in TaskIds, ok \in BOOLEAN : QueryEyes(i, ok)
    \/ \E i \in TaskIds : QuerySend(i)
    \/ \E i \in TaskIds, r \in SendResults : QuerySendReturn(i, r)
    \/ \E i \in TaskIds, rok \in BOOLEAN, ok \in BOOLEAN : QueryReply(i, rok, ok)
    \/ \E i \in TaskIds, ok \in BOOLEAN : QueryThumbsup(i, ok)
    \/ \E i \in TaskIds, ok \in BOOLEAN : QueryDelete(i, ok)
    \/ \E i \in TaskIds, ok \in BOOLEAN : QueryApologise(i, ok)

Spec == Init /\ [][Next]_vars

(***************************************************************************)
(* SpecHandlers: the handlers alone, every invocation recorded in h        *)
(***************************************************************************)
HandlersInit ==
    /\ PersistedInit
    /\ HistInit
    /\ ConcIdle
    /\ tasks = <<>>
    /\ nextTs = NumAnchors + 1
    /\ h = NoHandler
    /\ observing = TRUE

HandlersNext ==
    \/ \E t \in Teams, v \in Tokens, ok \in BOOLEAN : HandleAuthentication(t, v, ok)
    \/ \E t \in Teams, th \in Messages \cup {None}, ok \in BOOLEAN : Mention(t, th, ok)
    \/ \E t \in Teams, in \in PotpieInputs : StartConversation(t, in[1], in[2], in[3])
    \/ \E t \in Teams, in \in SubmissionInputs :
           HandleSubmission(t, in[1], in[2], in[3], in[4])

SpecHandlers == HandlersInit /\ [][HandlersNext]_vars

(***************************************************************************)
(* Properties of the handlers (SpecHandlers)                               *)
(***************************************************************************)
GatedHandlers == {"mention", "potpie", "submission"}

\* C4: for a tenant with no stored credential, a run of the app_mention,
\* /potpie or modal-submission handler makes no gateway call, writes no
\* mapping and schedules no dispatch task, and what it says is the
\* authentication guidance; no dispatch task (the only caller of
\* send_message) is ever created without a credential.
C4_NoCredentialNoGateway ==
    /\ (h.kind \in GatedHandlers /\ h.token = None) =>
           /\ h.gateway = <<>>
           /\ ~h.scheduled
           /\ ~h.wrote
           /\ h.says = <<AuthGuidance>>
    /\ \A i \in 1..Len(tasks) : tasks[i].token # None

C4_Witness ==
    /\ h.kind \in GatedHandlers
    /\ h.token = None
    /\ get_token(h.team) = None
    /\ h.says = <<AuthGuidance>>

\* C5 as stated: an app_mention with no thread_ts, or whose thread_ts has no
\* mapping, makes no gateway call, writes no mapping, schedules no dispatch
\* and posts the "Use /potpie" guidance exactly once.
C5_UnmappedMentionGuided ==
    (h.kind = "mention" /\ ~h.mapped) =>
        /\ h.gateway = <<>>
        /\ ~h.wrote
        /\ ~h.scheduled
        /\ h.says = <<StartGuidance>>

\* C5: an app_mention with no thread_ts, or whose thread_ts has no mapping,
\* makes no gateway call, writes no mapping and schedules no dispatch; when
\* the tenant has a stored credential it posts the "Use /potpie" guidance
\* exactly once, otherwise it posts the authentication guidance and nothing
\* else; and every dispatch task created has a conversation id.
C5_UnmappedMentionGuidedIfAuthenticated ==
    /\ (h.kind = "mention" /\ ~h.mapped) =>
           /\ h.gateway = <<>>
           /\ ~h.wrote
           /\ ~h.scheduled
           /\ h.says = IF h.token # None THEN <<StartGuidance>> ELSE <<AuthGuidance>>
    /\ \A i \in 1..Len(tasks) : tasks[i].conv # None

C5_Witness ==
    /\ h.kind = "mention"
    /\ ~h.mapped
    /\ h.thread_ts # None
    /\ h.token # None
    /\ h.says = <<StartGuidance>>

\* What a modal submission whose create_conversation returned Err leaves
\* undone: no opening message, no mapping written, no dispatch task, no
\* send_message; and it calls chat_postEphemeral once
SubmissionStoppedAtErr ==
    /\ h.gateway = <<"create_conversation">>
    /\ h.conv = None
    /\ ~h.wrote
    /\ ~h.scheduled
    /\ h.ephemerals = 1
    /\ \A k \in 1..Len(h.says) : h.says[k] = CreateFailed

\* C24 as stated: a modal submission whose create_conversation returned Err
\* posts no opening message, writes no mapping, schedules no dispatch, and the
\* user receives the "Failed to create conversation" message exactly once.
C24_CreateErrReported ==
    (h.kind = "submission" /\ h.created = "Err") =>
        /\ SubmissionStoppedAtErr
        /\ h.says = <<CreateFailed>>

\* C24, amended: the same, the message being received exactly once when the
\* chat_postEphemeral call succeeds; when that call fails the user receives
\* nothing and the exception leaves the handler.
C24_CreateErrReportedIfPostSucceeds ==
    (h.kind = "submission" /\ h.created = "Err") =>
        /\ SubmissionStoppedAtErr
        /\ \/ h.says = <<CreateFailed>> /\ ~h.raised
           \/ h.says = <<>> /\ h.raised

C24_Witness ==
    /\ h.kind = "submission"
    /\ h.created = "Err"
    /\ h.says = <<CreateFailed>>
    /\ h.token # None

\* C28: /potpie opens the start-conversation modal only when the tenant has
\* a credential, fetch_projects and fetch_agents both returned a list, a
\* project is ready and an agent exists; the project options of the modal are
\* the ready projects, all of them and nothing else; and fetch_agents is not
\* called when fetch_projects returned Err.
C28_ModalOnlyWhenReady ==
    \A t \in Teams, in \in PotpieInputs :
        LET projects == in[1]
            agents == in[2]
            r == start_conversation(t, projects, agents, in[3])
            ready == {k \in 1..Len(projects) : projects[k] = "ready"}
        IN /\ (r.modal \/ r.options # <<>>) =>
                 /\ get_token(t) # None
                 /\ ~IsFailure(projects)
                 /\ ~IsFailure(agents)
                 /\ ready # {}
                 /\ Len(agents) >= 1
                 /\ Len(r.options) = Cardinality(ready)
                 /\ \A k \in 1..Len(r.options) : r.options[k] = "ready"
                 /\ r.says = <<>>
           /\ projects = <<"Err">> => "fetch_agents" \notin {r.gateway[k] : k \in 1..Len(r.gateway)}

\* /potpie has opened the modal for a tenant with a credential, offering the
\* one ready project
C28_Witness ==
    /\ h.kind = "potpie"
    /\ h.modal
    /\ h.token # None
    /\ h.options = <<"ready">>
    /\ h.gateway = <<"fetch_projects", "fetch_agents">>

(***************************************************************************)
(* Properties of the dispatch tasks (Spec)                                 *)
(***************************************************************************)
\* How many times the task achieved the effect call/what on target
Count(t, call, what, target) ==
    Cardinality({k \in 1..Len(t.out) : t.out[k] = Effect(call, what, target)})

\* How many times the task achieved the effect call/what on anything
CountAny(t, call, what) ==
    Cardinality({k \in 1..Len(t.out) : t.out[k].call = call /\ t.out[k].what = what})

Replies(t) == CountAny(t, "post", "reply")

Thumbsups(t) == CountAny(t, "react", "thumbsup")

FailureMarks(t) == CountAny(t, "react", "x")

Apologies(t) == CountAny(t, "post", MentionApology) + CountAny(t, "post", QueryApology)

Ended(t) == t.pc = "done"

\* C6: a dispatch whose send_message returned Err, and in which no call made
\* afterwards failed, ends with exactly one 'x' reaction on the originating
\* message, exactly one apology in the thread and no thumbsup.
C6_ErrGivesMarkAndApology ==
    \A i \in 1..Len(tasks) :
        (Ended(tasks[i]) /\ tasks[i].res = "Err" /\ ~tasks[i].raised) =>
            /\ Count(tasks[i], "react", "x", tasks[i].msg) = 1
            /\ FailureMarks(tasks[i]) = 1
            /\ Apologies(tasks[i]) = 1
            /\ Thumbsups(tasks[i]) = 0

C8_NoFailureEscapes ==
    \A i \in 1..Len(tasks) : ~tasks[i].raised

TerminalSuccess(t) == Replies(t) >= 1 /\ Thumbsups(t) >= 1

TerminalFailure(t) == FailureMarks(t) >= 1 /\ Apologies(t) >= 1

\* C9: a dispatch task that has ended, without an exception escaping it, has
\* delivered Terminal-Success (reply posted and thumbsup attached) or
\* Terminal-Failure ('x' attached and apology posted).
C9_EndsInTerminalOutcome ==
    \A i \in 1..Len(tasks) :
        (Ended(tasks[i]) /\ ~tasks[i].raised) =>
            TerminalSuccess(tasks[i]) \/ TerminalFailure(tasks[i])

\* C10: no dispatch both posts the reply or attaches the thumbsup and posts
\* the apology or attaches the 'x'.
C10_OneTerminalOutcome ==
    \A i \in 1..Len(tasks) :
        ~ /\ Replies(tasks[i]) + Thumbsups(tasks[i]) >= 1
          /\ Apologies(tasks[i]) + FailureMarks(tasks[i]) >= 1

\* C11: a dispatch in which send_message returned Err after the placeholder
\* was posted, and whose except block ran without a failure, has called
\* chat_delete (attempted to delete the placeholder) by the time it ends.
C11_ErrCleansPlaceholder ==
    \A i \in 1..Len(tasks) :
        (/\ Ended(tasks[i])
         /\ tasks[i].res = "Err"
         /\ tasks[i].ph # None
         /\ ~tasks[i].raised) => tasks[i].deletes >= 1

\* A step taken by a dispatch task: a task changes and none is created
TaskStep == Len(tasks') = Len(tasks) /\ tasks' # tasks

\* C12: no step of a dispatch task changes the credential store or the
\* mapping store: get_token of every tenant and get_mapping of every anchor
\* are after the step what they were before it.
C12_DispatchWritesNoStore ==
    [][TaskStep =>
          /\ UNCHANGED <<backend, authFile, authTable, mapFile, mapTable>>
          /\ \A t \in Tenants : get_token(t)' = get_token(t)
          /\ \A a \in Messages : get_mapping(a)' = get_mapping(a)]_vars

\* C12 case: a follow-up mention on an anchor mapped to c1 has ended after
\* send_message returned Err, with the 'x' reaction and the apology, and the
\* anchor is still mapped to c1 and the tenant's token is the one it used.
C12_Witness ==
    \E i \in 1..Len(tasks) :
        /\ tasks[i].kind = "mention"
        /\ Ended(tasks[i])
        /\ tasks[i].res = "Err"
        /\ FailureMarks(tasks[i]) = 1
        /\ Apologies(tasks[i]) = 1
        /\ tasks[i].conv = ConvNames[1]
        /\ get_mapping(tasks[i].thread) = ConvNames[1]
        /\ get_token(Workspace) = tasks[i].token

\* How many times the handler invocation rec called the gateway operation op
GatewayCalls(rec, op) ==
    Cardinality({k \in 1..Len(rec.gateway) : rec.gateway[k] = op})

\* C19: a dispatch task calls send_message at most once, whether the call
\* returned a value, returned Err or raised, and a start-conversation
\* submission calls create_conversation at most once, whatever its result.
C19_NoRetry ==
    /\ \A i \in 1..Len(tasks) : tasks[i].sends <= 1
    /\ \A i \in 1..Len(tasks) :
           (Ended(tasks[i]) /\ tasks[i].res # "none") => tasks[i].sends = 1
    /\ \A t \in Teams, in \in SubmissionInputs :
           GatewayCalls(handle_submission(t, in[1], in[2], in[3], in[4],
                                          TsNames[nextTs]),
                        "create_conversation") <= 1

\* A task whose only send_message call failed has run to its end
C19_Witness ==
    \E i \in 1..Len(tasks) :
        /\ Ended(tasks[i])
        /\ tasks[i].res \in {"Err", "raise"}
        /\ tasks[i].sends = 1

\* C20: the handler that schedules a dispatch task returns without awaiting
\* it: in the step in which the handler completes, the task has been created
\* and has made no call yet (no placeholder, no send_message), and the tasks
\* already running are where they were.
C20_HandlerDoesNotAwaitDispatch ==
    [][Len(tasks') > Len(tasks) =>
          /\ Len(tasks') = Len(tasks) + 1
          /\ SubSeq(tasks', 1, Len(tasks)) = tasks
          /\ LET t == tasks'[Len(tasks')]
             IN /\ t.pc = "placeholder"
                /\ t.sends = 0
                /\ t.res = "none"
                /\ t.out = <<>>
                /\ ~Ended(t)]_vars

\* The handler has completed and the send_message call of the task it
\* scheduled is pending
C20_Witness ==
    \E i \in 1..Len(tasks) :
        /\ tasks[i].pc = "sending"
        /\ tasks[i].sends = 1
        /\ tasks[i].res = "none"

\* The effect is part of the failure outcome
IsFailureEffect(e) ==
    \/ e.call = "react" /\ e.what = "x"
    \/ e.call = "post" /\ e.what \in {MentionApology, QueryApology}

\* C23: a dispatch calls send_message only after its placeholder post has
\* returned, delivers a reply only after send_message has returned one, and,
\* when the placeholder post fails, never calls send_message and does nothing
\* but report the failure.
C23_PlaceholderThenSendThenTerminal ==
    \A i \in 1..Len(tasks) :
        LET t == tasks[i]
        IN /\ t.sends >= 1 =>
                 /\ t.ph # None
                 /\ Len(t.out) >= 1
                 /\ t.out[1] = Effect("post", ProcessingText, t.thread)
           /\ (Replies(t) >= 1 \/ Thumbsups(t) >= 1) =>
                 t.sends = 1 /\ t.res = "value"
           /\ (t.pc # "placeholder" /\ t.ph = None) =>
                 /\ t.sends = 0
                 /\ t.res = "none"
                 /\ t.excepted
                 /\ \A k \in 1..Len(t.out) : IsFailureEffect(t.out[k])

\* A dispatch whose placeholder post failed has ended, the apology posted
C23_Witness ==
    \E i \in 1..Len(tasks) :
        /\ Ended(tasks[i])
        /\ tasks[i].ph = None
        /\ tasks[i].sends = 0
        /\ Apologies(tasks[i]) = 1

(***************************************************************************)
(* SpecSubmit: start-conversation submissions running concurrently on the  *)
(* file-backed mapping store. Each coroutine is a handle_submission that   *)
(* has passed the Auth Guard, got its conversation id and posted its       *)
(* opening message; callers, lockHolder and waiters are here the           *)
(* coroutines inside FileConversationMappingStore and its lock.            *)
(***************************************************************************)
\* handle_submission up to `await conversation_mapping_store.set_mapping(...)`:
\* set_mapping runs to `async with self.lock` of _load_data.
SubmitCall(c, team_id, conv) ==
    /\ callers[c].pc = "idle"
    /\ LET r == handle_submission(team_id, conv, "value", TRUE, TRUE, TsNames[nextTs])
           started == [callers EXCEPT ![c] = [IdleCaller EXCEPT
                          !.op = "set", !.key = r.thread_ts, !.val = r.conv,
                          !.ret = r.token]]
           a == lock_acquire(started, lockHolder, waiters, c, "load_read", "load_wait")
       IN /\ r.scheduled
          /\ callers' = a.callers
          /\ lockHolder' = a.holder
          /\ waiters' = a.waiters
    /\ nextTs' = nextTs + 1
    /\ UNCHANGED <<tasks, h, observing>>
    /\ UNCHANGED storeVars
    /\ UNCHANGED histVars

\* FileConversationMappingStore._load_data under the lock; set_mapping then
\* assigns data[parent_message_id] and asks for the lock again in _save_data.
SubmitLoad(c) ==
    /\ callers[c].pc = "load_read"
    /\ lockHolder = c
    /\ LET rel == lock_release(callers, waiters)
           mod == [rel.callers EXCEPT
                      ![c].data = dict_set(load_data(mapFile), callers[c].key,
                                           callers[c].val)]
           a == lock_acquire(mod, rel.holder, rel.waiters, c, "save_open", "save_wait")
       IN /\ callers' = a.callers
          /\ lockHolder' = a.holder
          /\ waiters' = a.waiters
    /\ UNCHANGED storeVars
    /\ UNCHANGED histVars
    /\ UNCHANGED appVars

\* FileConversationMappingStore._save_data: aiofiles.open(path, "w") truncates
SubmitSaveOpen(c) ==
    /\ callers[c].pc = "save_open"
    /\ lockHolder = c
    /\ mapFile' = open_w(mapFile)
    /\ callers' = [callers EXCEPT ![c].pc = "save_write"]
    /\ UNCHANGED <<backend, authFile, authTable, mapTable, lockHolder, waiters>>
    /\ UNCHANGED histVars
    /\ UNCHANGED appVars

\* _save_data writes the document and releases the lock, set_mapping returns,
\* and handle_submission goes on to asyncio.create_task(process_query_task(...))
SubmitSaveWrite(c) ==
    /\ callers[c].pc = "save_write"
    /\ lockHolder = c
    /\ mapFile' = save_data(mapFile, callers[c].data)
    /\ LET rel == lock_release([callers EXCEPT ![c].pc = "done"], waiters)
       IN /\ callers' = rel.callers
          /\ lockHolder' = rel.holder
          /\ waiters' = rel.waiters
    /\ tasks' = Append(tasks, NewTask("query", callers[c].ret, callers[c].val,
                                      callers[c].key, callers[c].key))
    /\ UNCHANGED <<backend, authFile, authTable, mapTable>>
    /\ UNCHANGED <<nextTs, h, observing>>
    /\ UNCHANGED histVars

\* Every workspace is authenticated; the mapping file is absent or holds the
\* mapping of one earlier conversation.
SubmitInit ==
    /\ backend = "file"
    /\ authFile \in {json_dumps([i \in 1..NumTenants |-> <<TenantNames[i], v>>]) :
                          v \in Tokens}
    /\ mapFile \in {NoFile, file_set_mapping(NoFile, TsNames[1], ConvNames[1])}
    /\ authTable = {}
    /\ mapTable = {}
    /\ HistInit
    /\ callers = [c \in Callers |-> IdleCaller]
    /\ lockHolder = Unlocked
    /\ waiters = <<>>
    /\ AppIdle

SubmitNext ==
    \/ \E c \in Callers, t \in Teams, conv \in ConvIds : SubmitCall(c, t, conv)
    \/ \E c \in Callers : SubmitLoad(c)
    \/ \E c \in Callers : SubmitSaveOpen(c)
    \/ \E c \in Callers : SubmitSaveWrite(c)

SpecSubmit == SubmitInit /\ [][SubmitNext]_vars

\* C13: whenever a new-conversation dispatch task exists and the mapping
\* store is not in the middle of a call (its lock is free, so a get_mapping
\* would return at once), get_mapping(anchor) is the conversation id the task
\* was created with, and the task's thread is the message that opened it.
C13_MappingHeldWhileTaskExists ==
    lockHolder = Unlocked =>
        \A i \in 1..Len(tasks) :
            tasks[i].kind = "query" =>
                /\ get_mapping(tasks[i].thread) = tasks[i].conv
                /\ tasks[i].msg = tasks[i].thread

(***************************************************************************)
(* SpecOutage: the handlers of SpecHandlers, and the same handlers invoked *)
(* while a read of the credential store or of the mapping store raises     *)
(* (the SQL server is unreachable, the JSON document cannot be read or     *)
(* parsed: _load_data catches FileNotFoundError only).                     *)
(***************************************************************************)
StoreReads == {"get_token", "get_mapping"}

\* mention when the store read `failing` raises: the awaits of lines 100 and
\* 114 are in no try block, the exception leaves the handler
mention_store_error(team_id, thread_ts, failing) ==
    LET rec == [HandlerRec("mention", team_id) EXCEPT
                   !.thread_ts = thread_ts, !.store_error = failing,
                   !.raised = TRUE]
    IN  IF failing = "get_token"
        THEN rec
        ELSE [rec EXCEPT !.token = get_token(team_id)]

\* get_token is the first store read of mention; get_mapping is reached
\* with a credential and a thread_ts only
MentionStoreError(team_id, thread_ts, failing) ==
    /\ failing = "get_mapping" =>
           auth_guard(get_token(team_id)) /\ thread_ts # None
    /\ h' = Observed(mention_store_error(team_id, thread_ts, failing))
    /\ UNCHANGED <<tasks, nextTs, observing>>
    /\ UNCHANGED storeVars
    /\ UNCHANGED histVars
    /\ UNCHANGED concVars

\* /potpie when get_token raises: line 325 is before the try block
start_conversation_store_error(team_id) ==
    [HandlerRec("potpie", team_id) EXCEPT
        !.store_error = "get_token", !.raised = TRUE]

StartConversationStoreError(team_id) ==
    /\ h' = Observed(start_conversation_store_error(team_id))
    /\ UNCHANGED <<tasks, nextTs, observing>>
    /\ UNCHANGED storeVars
    /\ UNCHANGED histVars
    /\ UNCHANGED concVars

\* the modal submission when get_token raises: line 441 is inside the try
\* block, whose except posts the "Failed to create conversation" notice
handle_submission_store_error(team_id, ephemeral_ok) ==
    [HandlerRec("submission", team_id) EXCEPT
        !.store_error = "get_token",
        !.says = IF ephemeral_ok THEN <<CreateFailed>> ELSE <<>>,
        !.ephemerals = 1,
        !.raised = ~ephemeral_ok]

HandleSubmissionStoreError(team_id, ephemeral_ok) ==
    /\ h' = Observed(handle_submission_store_error(team_id, ephemeral_ok))
    /\ UNCHANGED <<tasks, nextTs, observing>>
    /\ UNCHANGED storeVars
    /\ UNCHANGED histVars
    /\ UNCHANGED concVars

OutageNext ==
    \/ HandlersNext
    \/ \E t \in Teams, th \in Messages \cup {None}, f \in StoreReads :
           MentionStoreError(t, th, f)
    \/ \E t \in Teams : StartConversationStoreError(t)
    \/ \E t \in Teams, ok \in BOOLEAN : HandleSubmissionStoreError(t, ok)

SpecOutage == HandlersInit /\ [][OutageNext]_vars

\* What a gate says when the key it reads is absent
AbsentGuidance(read) ==
    IF read = "get_token" THEN <<AuthGuidance>> ELSE <<StartGuidance>>

\* C14: a handler whose gate read of the credential store or of the mapping
\* store raised behaves as if the key were absent: it says the guidance of
\* that gate, calls no gateway operation, schedules no dispatch and returns
\* normally.
C14_StoreErrorIsAbsent ==
    h.store_error # None =>
        /\ h.says = AbsentGuidance(h.store_error)
        /\ h.gateway = <<>>
        /\ ~h.scheduled
        /\ ~h.raised

(***************************************************************************)
(* SpecWrites: the two handlers that write a store, when the write can     *)
(* raise.                                                                  *)
(***************************************************************************)
\* The file a raising _save_data leaves: untouched when aiofiles.open
\* raised, truncated when f.write raised after open(path, "w")
failed_save(file, truncated) == IF truncated THEN open_w(file) ELSE file

\* A modal submission that takes a failed set_mapping for a completed one
handle_submission_write_error_ignored(team_id, conv, ephemeral_ok, ts) ==
    [HandlerRec("submission", team_id) EXCEPT
        !.token = get_token(team_id),
        !.gateway = <<"create_conversation">>,
        !.created = "value",
        !.store_error = "set_mapping",
        !.says = <<OpeningText>>,
        !.scheduled = TRUE]

\* the modal submission when set_mapping raises (line 489, inside the try
\* block): the conversation is created and the opening message posted, then
\* the except block posts the "Failed to create conversation" notice
handle_submission_write_error(team_id, conv, ephemeral_ok, ts) ==
    [HandlerRec("submission", team_id) EXCEPT
        !.token = get_token(team_id),
        !.gateway = <<"create_conversation">>,
        !.created = "value",
        !.store_error = "set_mapping",
        !.says = IF ephemeral_ok THEN <<OpeningText, CreateFailed>>
                                 ELSE <<OpeningText>>,
        !.ephemerals = 1,
        !.raised = ~ephemeral_ok]

HandleSubmissionWriteError(team_id, conv, ephemeral_ok, truncated) ==
    /\ auth_guard(get_token(team_id))
    /\ truncated => backend = "file"
    /\ nextTs <= NumAnchors + MaxDispatch
    /\ h' = Observed(handle_submission_write_error(team_id, conv, ephemeral_ok,
                                                   TsNames[nextTs]))
    /\ mapFile' = failed_save(mapFile, truncated)
    /\ nextTs' = nextTs + 1
    /\ UNCHANGED <<backend, authFile, authTable, mapTable, tasks, observing>>
    /\ UNCHANGED histVars
    /\ UNCHANGED concVars

\* A handler that posts its success message whatever set_token did
handle_authentication_write_error_ignored(user_id, potpie_token) ==
    [HandlerRec("authentication", user_id) EXCEPT
        !.token = potpie_token,
        !.store_error = "set_token",
        !.says = <<AuthSuccess>>]

\* handle_authentication when set_token raises (line 222, inside the try
\* block): the except block prints the error, nothing is posted
handle_authentication_write_error(user_id, potpie_token) ==
    [HandlerRec("authentication", user_id) EXCEPT
        !.token = potpie_token,
        !.store_error = "set_token"]

HandleAuthenticationWriteError(user_id, potpie_token, truncated) ==
    /\ truncated => backend = "file"
    /\ h' = Observed(handle_authentication_write_error(user_id, potpie_token))
    /\ authFile' = failed_save(authFile, truncated)
    /\ UNCHANGED <<backend, mapFile, authTable, mapTable>>
    /\ UNCHANGED <<tasks, nextTs, observing>>
    /\ UNCHANGED histVars
    /\ UNCHANGED concVars

WritesNext ==
    \/ \E t \in Teams, v \in Tokens, ok \in BOOLEAN : HandleAuthentication(t, v, ok)
    \/ \E t \in Teams, in \in SubmissionInputs :
           HandleSubmission(t, in[1], in[2], in[3], in[4])
    \/ \E t \in Teams, eok \in BOOLEAN, tr \in BOOLEAN :
           HandleSubmissionWriteError(t, ConvNames[1], eok, tr)
    \/ \E t \in Teams, v \in Tokens, tr \in BOOLEAN :
           HandleAuthenticationWriteError(t, v, tr)

SpecWrites == HandlersInit /\ [][WritesNext]_vars

\* The conversation the submission created is recorded under the id of the
\* opening message
CreatedIsMapped ==
    /\ h.wrote
    /\ h.conv # None
    /\ h.thread_ts # None
    /\ get_mapping(h.thread_ts) = h.conv

\* The text is among what the handler got posted
Said(text) == \E k \in 1..Len(h.says) : h.says[k] = text

\* C26 as stated: a conversation that create_conversation returned is either
\* recorded in the mapping store under the id of the opening message or
\* reported with the "Failed to create conversation" message; when the opening
\* post or set_mapping failed no dispatch task is scheduled.
C26_CreatedIsMappedOrReported ==
    (h.kind = "submission" /\ h.created = "value") =>
        /\ CreatedIsMapped \/ Said(CreateFailed)
        /\ ~CreatedIsMapped => ~h.scheduled

\* C26, amended: the same, the report being the one chat_postEphemeral call
\* that the handler makes: the message reaches the user when that call
\* succeeds, and when it fails the exception leaves the handler.
C26_CreatedIsMappedOrReportAttempted ==
    (h.kind = "submission" /\ h.created = "value") =>
        /\ \/ CreatedIsMapped /\ h.ephemerals = 0 /\ h.scheduled
           \/ /\ ~CreatedIsMapped
              /\ h.ephemerals = 1
              /\ Said(CreateFailed) \/ h.raised
              /\ Said(CreateFailed) => ~h.raised
        /\ ~CreatedIsMapped => ~h.scheduled

\* set_mapping raised after the conversation was created and the opening
\* message posted: the failure is reported and the thread has no mapping
C26_Witness ==
    /\ h.kind = "submission"
    /\ h.created = "value"
    /\ h.store_error = "set_mapping"
    /\ h.says = <<OpeningText, CreateFailed>>
    /\ ~h.scheduled

Err_with_status_200(message) == Err(message, 200)

Err_local(message) == Err(message, default_status_code)

\* A response body: its text, and what response.json() makes of it.
\*   form "invalid": not JSON (json() raises); "list": items are the "status"
\*   of each element, or "broken" for an element without the expected keys;
\*   "object": a JSON object holding `key` with the JSON value `val`;
\*   "null": the JSON value null.
Body(text, form, items, key, val) ==
    [text |-> text, form |-> form, items |-> items, key |-> key, val |-> val]

JsonString(x) == [type |-> "string", repr |-> x]

JsonNull == [type |-> "null", repr |-> "null"]

\* Python's str() of a decoded JSON value
str(v) == IF v.type = "null" THEN "None" ELSE v.repr

Bodies ==
    { Body("<html>Bad Gateway</html>", "invalid", <<>>, None, JsonNull),
      Body("[]", "list", <<>>, None, JsonNull),
      Body("[ready]", "list", <<"ready">>, None, JsonNull),
      Body("[error, ready]", "list", <<"error", "ready">>, None, JsonNull),
      Body("[{}]", "list", <<"broken">>, None, JsonNull),
      Body("{conversation_id: c1}", "object", <<>>, "conversation_id", JsonString(ConvNames[1])),
      Body("{message: hello}", "object", <<>>, "message", JsonString("hello")),
      Body("{message: null}", "object", <<>>, "message", JsonNull),
      Body("{detail: Not Found}", "object", <<>>, "detail", JsonString("Not Found")),
      Body("null", "null", <<>>, None, JsonNull) }

Statuses == {200, 201, 204, 302, 401, 404, 500}

\* 2xx
IsSuccessStatus(status) == status \in 200..299

Exchanges ==
    {[transport |-> "failed", status |-> 0, body |-> Body("", "invalid", <<>>, None, JsonNull)]}
    \cup {[transport |-> "ok", status |-> st, body |-> b] : st \in Statuses, b \in Bodies}

\* [Project(id=project["id"], name=project["repo_name"], status=project["status"])
\*  for project in res]: KeyError on an element without these keys
projection(items) ==
    IF \E i \in 1..Len(items) : items[i] = "broken"
    THEN Raises("KeyError")
    ELSE Value(items)

\* data["conversation_id"] / data["message"] on the decoded body
subscript(body, key) ==
    IF body.form = "object" /\ body.key = key
    THEN Value(str(body.val))
    ELSE IF body.form = "object" THEN Raises("KeyError")
    ELSE Raises("TypeError")

fetch_projects(x) ==
    IF x.transport # "ok" THEN Raises("ClientError")
    ELSE IF x.status = 200
    THEN IF x.body.form = "invalid" THEN Raises("ContentTypeError")
         ELSE IF x.body.form # "list" THEN Err_local("invalid object received")
         ELSE projection(x.body.items)
    ELSE Err(x.body.text, x.status)

fetch_agents(x) ==
    IF x.transport # "ok" THEN Raises("ClientError")
    ELSE IF x.status = 200
    THEN IF x.body.form = "invalid" THEN Raises("ContentTypeError")
         ELSE IF x.body.form # "list" THEN Err_local("invalid object received")
         ELSE projection(x.body.items)
    ELSE Err(x.body.text, x.status)

create_conversation(x) ==
    IF x.transport # "ok" THEN Raises("ClientError")
    ELSE IF x.status = 200
    THEN IF x.body.form = "invalid" THEN Raises("ContentTypeError")
         ELSE subscript(x.body, "conversation_id")
    ELSE Err(x.body.text, x.status)

send_message(x) ==
    IF x.transport # "ok" THEN Raises("ClientError")
    ELSE IF x.status = 200
    THEN IF x.body.form = "invalid" THEN Raises("ContentTypeError")
         ELSE subscript(x.body, "message")
    ELSE Err(x.body.text, x.status)

GatewayOps == {"fetch_projects", "fetch_agents", "create_conversation", "send_message"}

gateway(op, x) ==
    CASE op = "fetch_projects" -> fetch_projects(x)
      [] op = "fetch_agents" -> fetch_agents(x)
      [] op = "create_conversation" -> create_conversation(x)
      [] op = "send_message" -> send_message(x)

\* One gateway operation is called and ends
GatewayCall(op, x) ==
    /\ gw' = [op |-> op, x |-> x, result |-> gateway(op, x)]
    /\ UNCHANGED <<lastTok, lastMap, lastCall>>
    /\ UNCHANGED storeVars
    /\ UNCHANGED concVars
    /\ UNCHANGED appVars

GatewayNext == \E op \in GatewayOps, x \in Exchanges : GatewayCall(op, x)

SpecGateway == StoreInitAll /\ [][GatewayNext]_vars

GatewayCalled == gw.op # "none"

\* C15: no gateway operation raises to its caller: whatever the exchange
\* (transport failure, 200 with a body that is not JSON or lacks the field),
\* the result is a domain value or an Err.
C15_GatewayNeverRaises ==
    GatewayCalled => gw.result.tag \in {"value", "Err"}

\* The body holds what the operation reads from a 200 response
WellFormed(op, body) ==
    CASE op \in {"fetch_projects", "fetch_agents"} ->
             body.form = "list" /\ \A i \in 1..Len(body.items) : body.items[i] # "broken"
      [] op = "create_conversation" ->
             body.form = "object" /\ body.key = "conversation_id"
      [] op = "send_message" ->
             body.form = "object" /\ body.key = "message"

\* C16, its last part: for every operation, a response with a 2xx status and
\* a well-formed body gives the domain value and not an Err (an Err being
\* returned exactly when the status is not 2xx).
C16_SuccessStatusGivesValue ==
    (/\ GatewayCalled
     /\ gw.x.transport = "ok"
     /\ IsSuccessStatus(gw.x.status)
     /\ WellFormed(gw.op, gw.x.body)) => gw.result.tag = "value"

\* C17: fetch_projects and fetch_agents, on a 200 response whose JSON body is
\* not a list, return Err("invalid object received") with status_code -1,
\* and no list.
C17_NonListIsLocalErr ==
    (/\ GatewayCalled
     /\ gw.op \in {"fetch_projects", "fetch_agents"}
     /\ gw.x.transport = "ok"
     /\ gw.x.status = 200
     /\ gw.x.body.form \in {"object", "null"}) =>
        /\ gw.result = Err("invalid object received", 0 - 1)
        /\ gw.result.status_code # 200
        /\ gw.result.value = None

C17_Witness ==
    /\ GatewayCalled
    /\ gw.op = "fetch_agents"
    /\ gw.x.transport = "ok"
    /\ gw.x.status = 200
    /\ gw.x.body.form = "object"
    /\ gw.result.tag = "Err"
    /\ gw.result.message = "invalid object received"
    /\ gw.result.status_code = 0 - 1

(***************************************************************************)
(* SpecTwins: two dispatch tasks started with the same arguments (the same *)
(* event delivered twice), each running on its own.                        *)
(***************************************************************************)
TwinIds == {1, 2}

TwinsInit ==
    /\ backend = "file"
    /\ authFile = file_set_token(NoFile, TenantNames[1], TokenNames[1])
    /\ mapFile = file_set_mapping(NoFile, TsNames[1], ConvNames[1])
    /\ authTable = {}
    /\ mapTable = {}
    /\ HistInit
    /\ ConcIdle
    /\ \E kind \in {"mention", "query"} :
          LET t == NewTask(kind, TokenNames[1], ConvNames[1], TsNames[1],
                           IF kind = "mention" THEN TsNames[NumAnchors + 1]
                                               ELSE TsNames[1])
          IN tasks = <<t, t>>
    /\ nextTs = NumAnchors + 2
    /\ h = NoHandler
    /\ observing = FALSE

TwinsNext ==
    \/ \E i \in TwinIds, ok \in BOOLEAN : MentionPlaceholder(i, ok)
    \/ \E i \in TwinIds : MentionSend(i)
    \/ \E i \in TwinIds, r \in SendResults : MentionSendReturn(i, r)
    \/ \E i \in TwinIds, rok \in BOOLEAN, ok \in BOOLEAN : MentionReply(i, rok, ok)
    \/ \E i \in TwinIds, ok \in BOOLEAN : MentionThumbsup(i, ok)
    \/ \E i \in TwinIds, ok \in BOOLEAN : MentionDelete(i, ok)
    \/ \E i \in TwinIds, ok \in BOOLEAN : MentionReactX(i, ok)
    \/ \E i \in TwinIds, ok \in BOOLEAN : MentionApologise(i, ok)
    \/ \E i \in TwinIds, ok \in BOOLEAN : QueryPlaceholder(i, ok)
    \/ \E i \in TwinIds, ok \in BOOLEAN : QueryEyes(i, ok)
    \/ \E i \in TwinIds : QuerySend(i)
    \/ \E i \in TwinIds, r \in SendResults : QuerySendReturn(i, r)
    \/ \E i \in TwinIds, rok \in BOOLEAN, ok \in BOOLEAN : QueryReply(i, rok, ok)
    \/ \E i \in TwinIds, ok \in BOOLEAN : QueryThumbsup(i, ok)
    \/ \E i \in TwinIds, ok \in BOOLEAN : QueryDelete(i, ok)
    \/ \E i \in TwinIds, ok \in BOOLEAN : QueryApologise(i, ok)

SpecTwins == TwinsInit /\ [][TwinsNext]_vars

\* s is an initial part of t
IsPrefix(s, t) == Len(s) <= Len(t) /\ SubSeq(t, 1, Len(s)) = s

\* The texts of the messages the task posted
PostedTexts(t) == {t.out[k].what : k \in {k \in 1..Len(t.out) : t.out[k].call = "post"}}

\* C21: what a dispatch sends to the chat platform after send_message returned
\* Err does not depend on the Err: two dispatches of the same query that got
\* Err results sent the same messages and reactions in the same order (as far
\* as each has come, and exactly the same once both ended without a platform
\* call failing), and the message of the Err is in no posted text.
C21_FailureOutputIgnoresErr ==
    /\ \A i \in 1..Len(tasks), j \in 1..Len(tasks) :
           (/\ tasks[i].res = "Err" /\ tasks[j].res = "Err"
            /\ tasks[i].kind = tasks[j].kind
            /\ tasks[i].thread = tasks[j].thread /\ tasks[i].msg = tasks[j].msg)
           => /\ IsPrefix(tasks[i].out, tasks[j].out) \/ IsPrefix(tasks[j].out, tasks[i].out)
              /\ (/\ Ended(tasks[i]) /\ Ended(tasks[j])
                  /\ ~tasks[i].raised /\ ~tasks[j].raised)
                 => tasks[i].out = tasks[j].out
    /\ \A i \in 1..Len(tasks) :
           tasks[i].res = "Err" => tasks[i].err.message \notin PostedTexts(tasks[i])

\* Two dispatches of the same query ended after Err results that differ in
\* message and in status_code, each having posted its apology
C21_Witness ==
    /\ Len(tasks) = 2
    /\ \A i \in 1..2 : /\ Ended(tasks[i]) /\ tasks[i].res = "Err" /\ ~tasks[i].raised
                        /\ Apologies(tasks[i]) = 1
    /\ tasks[1].err.message # tasks[2].err.message
    /\ tasks[1].err.status_code # tasks[2].err.status_code
    /\ tasks[1].err \in ErrResults

(***************************************************************************)
(* SpecInFlight: follow-up mentions in one thread of one workspace, while  *)
(* the workspace authenticates again and the thread is mapped again.       *)
(***************************************************************************)
\* conversation_mapping_store.set_mapping(a, c), called by anything
Remap(a, c) ==
    /\ set_mapping(a, c)
    /\ UNCHANGED <<backend, authFile, authTable>>
    /\ UNCHANGED histVars
    /\ UNCHANGED concVars
    /\ UNCHANGED appVars

InFlightNext ==
    \/ \E v \in Tokens, ok \in BOOLEAN : HandleAuthentication(Workspace, v, ok)
    \/ \E c \in ConvIds : Remap(TsNames[1], c)
    \/ \E ok \in BOOLEAN : Mention(Workspace, TsNames[1], ok)
    \/ \E i \in TaskIds, ok \in BOOLEAN : MentionPlaceholder(i, ok)
    \/ \E i \in TaskIds : MentionSend(i)
    \/ \E i \in TaskIds, r \in SendResults : MentionSendReturn(i, r)
    \/ \E i \in TaskIds, rok \in BOOLEAN, ok \in BOOLEAN : MentionReply(i, rok, ok)
    \/ \E i \in TaskIds, ok \in BOOLEAN : MentionThumbsup(i, ok)
    \/ \E i \in TaskIds, ok \in BOOLEAN : MentionDelete(i, ok)
    \/ \E i \in TaskIds, ok \in BOOLEAN : MentionReactX(i, ok)
    \/ \E i \in TaskIds, ok \in BOOLEAN : MentionApologise(i, ok)

SpecInFlight == Init /\ [][InFlightNext]_vars

\* C25: the send_message call of a follow-up mention's dispatch carries the
\* token and the conversation id that the handler read at its gates and
\* created the task with, whatever set_token and set_mapping have written
\* since.
C25_SendsWhatTheGateRead ==
    [][/\ Len(tasks') > Len(tasks) =>
             LET t == tasks'[Len(tasks')]
             IN /\ t.token = get_token(Workspace) /\ t.token \in Tokens
                /\ t.conv = get_mapping(t.thread) /\ t.conv \in ConvIds
       /\ \A i \in 1..Len(tasks) :
             /\ tasks'[i].token = tasks[i].token
             /\ tasks'[i].conv = tasks[i].conv
             /\ tasks'[i].sends > tasks[i].sends =>
                    tasks'[i].sent = <<tasks[i].token, tasks[i].conv>>
             /\ tasks[i].sends >= 1 => tasks'[i].sent = tasks[i].sent]_vars

\* The call is pending with the values of the gate, and both the credential
\* of the workspace and the mapping of the thread have been replaced since
C25_Witness ==
    \E i \in 1..Len(tasks) :
        /\ tasks[i].pc = "sending"
        /\ tasks[i].sent = <<tasks[i].token, tasks[i].conv>>
        /\ get_token(Workspace) # tasks[i].token
        /\ get_mapping(tasks[i].thread) # tasks[i].conv

====
